---- MODULE Spec2Model ----
(***************************************************************************)
(* Flip Radar (src/src/app/flip-radar/page.tsx): the buyer-activity query   *)
(* computeResults over the in-memory reference data, and the clock it       *)
(* reads.                                                                   *)
(*                                                                          *)
(* Units.  A time value (JS Date) is a whole number of hours since          *)
(* 1970-01-01T00:00Z; the host's local time zone is UTC.  A distance or a   *)
(* radius is a whole number of thousandths of a mile.  A coordinate is a    *)
(* whole number of ten-thousandths of a degree.  A price is a whole number  *)
(* of half dollars, so that the mean of two whole-dollar prices is exact.   *)
(***************************************************************************)
EXTENDS Integers, Sequences, FiniteSets, TLC

VARIABLES
    buyers,      \* the Buyer[] reference collection
    events,      \* the BuyerEvent[] reference collection
    now,         \* the wall clock, what new Date() returns
    ticks,       \* how often the clock has advanced (bounds the model)
    center,      \* arguments of the latest computeResults call
    radius,
    months,
    buyerType,
    calledAt,    \* the clock value monthsAgo read in the latest call
    results,     \* outcome of the latest call: [status, rows]
    polygonArgs, \* arguments of circlePolygon: [lon, lat, radiusMiles, points]
    coords       \* the ring circlePolygon returned, <<>> before the call

vars == <<buyers, events, now, ticks, center, radius, months, buyerType, calledAt, results,
          polygonArgs, coords>>

----------------------------------------------------------------------------
(* Date arithmetic of the JS Date object (proleptic Gregorian calendar).    *)

HoursPerDay == 24

Dollars(x) == 2 * x

\* Day number (days since 1970-01-01) of a calendar date; m may be any
\* 1..12, d may exceed the month's length (the date then rolls over into the
\* following month, as MakeDay does).
DaysFromCivil(y, m, d) ==
    LET yy  == IF m <= 2 THEN y - 1 ELSE y
        era == yy \div 400
        yoe == yy - era * 400
        mp  == IF m > 2 THEN m - 3 ELSE m + 9
        doy == (153 * mp + 2) \div 5 + d - 1
        doe == yoe * 365 + yoe \div 4 - yoe \div 100 + doy
    IN  era * 146097 + doe - 719468

\* The calendar date [y, m, d] of a day number.
CivilFromDays(z) ==
    LET zz  == z + 719468
        era == zz \div 146097
        doe == zz - era * 146097
        yoe == (doe - doe \div 1460 + doe \div 36524 - doe \div 146096) \div 365
        doy == doe - (365 * yoe + yoe \div 4 - yoe \div 100)
        mp  == (5 * doy + 2) \div 153
        dd  == doy - (153 * mp + 2) \div 5 + 1
        mm  == IF mp < 10 THEN mp + 3 ELSE mp - 9
        yy  == yoe + era * 400 + (IF mm <= 2 THEN 1 ELSE 0)
    IN  [y |-> yy, m |-> mm, d |-> dd]

\* new Date("YYYY-MM-DD"): a date-only string is midnight UTC of that day.
ParseDate(s) == DaysFromCivil(s.y, s.m, s.d) * HoursPerDay

SetMonthNoYearBorrow(t, month) ==
    LET c  == CivilFromDays(t \div HoursPerDay)
    IN  DaysFromCivil(c.y, (month % 12) + 1, c.d) * HoursPerDay + (t % HoursPerDay)

\* d.setMonth(month) on time value t: the month index may be any integer
\* (years are borrowed or carried); day of month and time of day are kept,
\* a day past the end of the target month rolls over into the next month.
SetMonth(t, month) ==
    LET c  == CivilFromDays(t \div HoursPerDay)
        mi == c.y * 12 + month
    IN  DaysFromCivil(mi \div 12, (mi % 12) + 1, c.d) * HoursPerDay + (t % HoursPerDay)

\* d.getMonth(): 0..11
GetMonth(t) == CivilFromDays(t \div HoursPerDay).m - 1

\* monthsAgo(n), with the value new Date() returned passed as `clock`.
monthsAgo(n, clock) == SetMonth(clock, GetMonth(clock) - n)

----------------------------------------------------------------------------
(* Reference data.                                                          *)

Date(y, m, d) == [y |-> y, m |-> m, d |-> d]

SeededBuyers == <<
    [id |-> "b1", name |-> "Evergreen Residential LLC", buyer_type |-> "flipper"],
    [id |-> "b2", name |-> "Alamo Rentals Group",       buyer_type |-> "landlord"],
    [id |-> "b3", name |-> "River City Capital",        buyer_type |-> "cash"],
    [id |-> "b4", name |-> "Hill Country Flips",        buyer_type |-> "flipper"] >>

properties == <<
    [id |-> "p1", lat |-> 294620, lon |-> -985010],
    [id |-> "p2", lat |-> 297410, lon |-> -954830],
    [id |-> "p3", lat |-> 294580, lon |-> -985140],
    [id |-> "p4", lat |-> 294220, lon |-> -985140],
    [id |-> "p5", lat |-> 294100, lon |-> -984950],
    [id |-> "p6", lat |-> 294110, lon |-> -984870] >>

Ev(b, p, t, dt, price) ==
    [buyer_id |-> b, property_id |-> p, event_type |-> t, event_date |-> dt, price |-> price]

SeededEvents == <<
    Ev("b1", "p1", "purchase", Date(2025, 7, 21),  Dollars(275000)),
    Ev("b1", "p3", "purchase", Date(2025, 5, 10),  Dollars(245000)),
    Ev("b1", "p5", "purchase", Date(2024, 12, 19), Dollars(310000)),
    Ev("b2", "p4", "purchase", Date(2025, 3, 2),   Dollars(190000)),
    Ev("b2", "p6", "purchase", Date(2024, 10, 11), Dollars(215000)),
    Ev("b3", "p1", "purchase", Date(2024, 9, 20),  Dollars(260000)),
    Ev("b4", "p6", "purchase", Date(2025, 8, 5),   Dollars(330000)) >>

----------------------------------------------------------------------------
(* Helpers.                                                                 *)

\* distanceMiles(a, b): the haversine distance, rounded up to a thousandth
\* of a mile (so "distance <= radius" is exact for every radius that is a
\* whole number of thousandths).  The sine and cosine terms are tabulated
\* for the centers of the model and the seeded property locations.
distanceMiles(a, b) ==
    LET A == <<a.lat, a.lon>>
        B == <<b.lat, b.lon>>
    IN  CASE A = B -> 0
          [] A = <<294241, -984936>> /\ B = <<294620, -985010>> -> 2657
          [] A = <<294241, -984936>> /\ B = <<297410, -954830>> -> 182214
          [] A = <<294241, -984936>> /\ B = <<294580, -985140>> -> 2645
          [] A = <<294241, -984936>> /\ B = <<294220, -985140>> -> 1237
          [] A = <<294241, -984936>> /\ B = <<294100, -984950>> -> 978
          [] A = <<294241, -984936>> /\ B = <<294110, -984870>> -> 989
          [] A = <<294620, -985010>> /\ B = <<297410, -954830>> -> 182327
          [] A = <<294620, -985010>> /\ B = <<294580, -985140>> -> 830
          [] A = <<294620, -985010>> /\ B = <<294220, -985140>> -> 2873
          [] A = <<294620, -985010>> /\ B = <<294100, -984950>> -> 3611
          [] A = <<294620, -985010>> /\ B = <<294110, -984870>> -> 3624

\* Array.prototype.find by id: the index of the first element with that id,
\* 0 for undefined.
RECURSIVE FindFrom(_, _, _)
FindFrom(arr, id, i) ==
    IF i > Len(arr) THEN 0
    ELSE IF arr[i].id = id THEN i
    ELSE FindFrom(arr, id, i + 1)

Find(arr, id) == FindFrom(arr, id, 1)

\* The value of a property key that is a canonical array index ("7", "12"),
\* -1 for any other key.  Object.values lists such keys first, ascending.
ArrayIndex(key) ==
    CASE key = "7"  -> 7
      [] key = "12" -> 12
      [] OTHER      -> -1

----------------------------------------------------------------------------
(* computeResults.                                                          *)

withinTimeAlways(e, since) == TRUE

withinTime(e, since) == ParseDate(e.event_date) >= since

withinDistReversed(e, c, radiusMiles) ==
    distanceMiles(c, properties[Find(properties, e.property_id)]) >= radiusMiles

withinDist(e, c, radiusMiles) ==
    distanceMiles(c, properties[Find(properties, e.property_id)]) <= radiusMiles

\* The filter callback's verdict on one event (the property is known).
FilterKeeps(e, c, radiusMiles, since) ==
    e.event_type = "purchase" /\ withinTime(e, since) /\ withinDist(e, c, radiusMiles)

\* events.filter(...): the callback reads p.lat of every event, whatever its
\* type or date, so one event whose property is undefined throws.
FilterThrows(evs) == \E i \in 1..Len(evs) : Find(properties, evs[i].property_id) = 0

RECURSIVE FilterFrom(_, _, _, _, _)
FilterFrom(evs, i, c, radiusMiles, since) ==
    IF i > Len(evs) THEN << >>
    ELSE (IF FilterKeeps(evs[i], c, radiusMiles, since) THEN <<evs[i]>> ELSE << >>)
         \o FilterFrom(evs, i + 1, c, radiusMiles, since)

\* The category test of the grouping loop: TRUE when the event is skipped.
SkipsNever(buyer, type) == FALSE

Skips(buyer, type) == type /= "all" /\ buyer.buyer_type /= type

\* The grouping loop over `filtered` from index i on.  byBuyer is
\* [keys, val]: the keys in insertion order, and each key's accumulator.
\* The outcome is [threw |-> TRUE] when a buyer is undefined.
RECURSIVE GroupFrom(_, _, _, _, _)
GroupFrom(bs, filtered, i, type, byBuyer) ==
    IF i > Len(filtered) THEN [threw |-> FALSE, byBuyer |-> byBuyer]
    ELSE
      LET ev == filtered[i]
          bi == Find(bs, ev.buyer_id)
      IN  IF bi = 0 THEN [threw |-> TRUE, byBuyer |-> byBuyer]
          ELSE IF Skips(bs[bi], type)
          THEN GroupFrom(bs, filtered, i + 1, type, byBuyer)
          ELSE
            LET id    == bs[bi].id
                fresh == \A k \in 1..Len(byBuyer.keys) : byBuyer.keys[k] /= id
                old   == IF fresh
                         THEN [buyer |-> bs[bi], deals |-> << >>,
                               last |-> ParseDate(Date(1970, 1, 1))]
                         ELSE byBuyer.val[id]
                d     == ParseDate(ev.event_date)
                upd   == [old EXCEPT !.deals = Append(@, ev),
                                     !.last  = IF d > @ THEN d ELSE @]
                next  == [keys |-> IF fresh THEN Append(byBuyer.keys, id) ELSE byBuyer.keys,
                          val  |-> [k \in DOMAIN byBuyer.val \cup {id} |->
                                      IF k = id THEN upd ELSE byBuyer.val[k]]]
            IN  GroupFrom(bs, filtered, i + 1, type, next)

EmptyObject == [keys |-> << >>, val |-> [k \in {} |-> 0]]

\* Object.values(byBuyer): the keys that are array indices first, in
\* ascending numeric order, then the others in insertion order.
RECURSIVE IndexKeysAscending(_)
IndexKeysAscending(keys) ==
    IF keys = {} THEN << >>
    ELSE LET k == CHOOSE x \in keys : \A y \in keys : ArrayIndex(x) <= ArrayIndex(y)
         IN  <<k>> \o IndexKeysAscending(keys \ {k})

OwnKeys(byBuyer) ==
    LET ks == byBuyer.keys
    IN  IndexKeysAscending({ks[i] : i \in {j \in 1..Len(ks) : ArrayIndex(ks[j]) >= 0}})
        \o SelectSeq(ks, LAMBDA k : ArrayIndex(k) < 0)

\* prices.sort((a, b) => a - b): ascending.
RECURSIVE InsertPrice(_, _)
InsertPrice(sorted, x) ==
    IF sorted = << >> THEN <<x>>
    ELSE IF x - Head(sorted) < 0 THEN <<x>> \o sorted
    ELSE <<Head(sorted)>> \o InsertPrice(Tail(sorted), x)

RECURSIVE SortPricesFrom(_, _, _)
SortPricesFrom(ps, i, sorted) ==
    IF i > Len(ps) THEN sorted
    ELSE SortPricesFrom(ps, i + 1, InsertPrice(sorted, ps[i]))

SortPricesUnsorted(ps) == ps

SortPrices(ps) == SortPricesFrom(ps, 1, << >>)

\* The median of the deals' prices, as lines 137-139 compute it.
Median(deals) ==
    LET prices == SortPrices([i \in 1..Len(deals) |-> deals[i].price])
        mid    == Len(prices) \div 2
    IN  IF Len(prices) % 2 = 1 THEN prices[mid + 1]
        ELSE (prices[mid] + prices[mid + 1]) \div 2

\* The map callback: one ResultRow per accumulator (name and contacts are
\* carried through from the buyer; the contacts are left out of the model).
Row(v) ==
    [id          |-> v.buyer.id,
     name        |-> v.buyer.name,
     buyer_type  |-> v.buyer.buyer_type,
     deals_count |-> Len(v.deals),
     last_deal   |-> v.last,
     median_price |-> Median(v.deals)]

\* The comparator of out.sort: negative when a goes before b.
Compare(a, b) ==
    IF b.deals_count - a.deals_count /= 0
    THEN b.deals_count - a.deals_count
    ELSE b.last_deal - a.last_deal

\* out.sort(...): Array.prototype.sort is stable.
RECURSIVE InsertRow(_, _)
InsertRow(sorted, x) ==
    IF sorted = << >> THEN <<x>>
    ELSE IF Compare(x, Head(sorted)) < 0 THEN <<x>> \o sorted
    ELSE <<Head(sorted)>> \o InsertRow(Tail(sorted), x)

RECURSIVE SortRowsFrom(_, _, _)
SortRowsFrom(rows, i, sorted) ==
    IF i > Len(rows) THEN sorted
    ELSE SortRowsFrom(rows, i + 1, InsertRow(sorted, rows[i]))

SortRows(rows) == SortRowsFrom(rows, 1, << >>)

\* computeResults(center, radiusMiles, months, buyerType) over the reference
\* data bs, evs, with the clock value its monthsAgo call reads.  The outcome
\* is [status |-> "ok", rows |-> the returned array], or status "TypeError"
\* when a property or a buyer that find() did not find is dereferenced.
computeResults(bs, evs, c, radiusMiles, ms, type, clock) ==
    LET since == monthsAgo(ms, clock)
    IN  IF FilterThrows(evs) THEN [status |-> "TypeError", rows |-> << >>]
        ELSE
          LET filtered == FilterFrom(evs, 1, c, radiusMiles, since)
              grouped  == GroupFrom(bs, filtered, 1, type, EmptyObject)
          IN  IF grouped.threw THEN [status |-> "TypeError", rows |-> << >>]
              ELSE
                LET keys == OwnKeys(grouped.byBuyer)
                    out  == [i \in 1..Len(keys) |-> Row(grouped.byBuyer.val[keys[i]])]
                IN  [status |-> "ok", rows |-> SortRows(out)]

----------------------------------------------------------------------------
(* The reference data sets of the model: the seeded data of the source, and *)
(* data of the same types that exercise what the seeded data does not.      *)

\* Two more buyers, whose ids are numeric strings.
VariedBuyers == SeededBuyers \o <<
    [id |-> "12", name |-> "Lone Star Holdings",  buyer_type |-> "flipper"],
    [id |-> "7",  name |-> "Mission Trail Homes", buyer_type |-> "landlord"] >>

\* Four buyers with one purchase each on the same day, sales, and a buyer
\* with four purchases at different distances, dates and (unsorted) prices.
VariedEvents == <<
    Ev("12", "p5", "purchase", Date(2025, 6, 1),  Dollars(100)),
    Ev("b4", "p6", "purchase", Date(2025, 6, 1),  Dollars(200)),
    Ev("7",  "p4", "purchase", Date(2025, 6, 1),  Dollars(300)),
    Ev("b3", "p6", "purchase", Date(2025, 6, 1),  Dollars(400)),
    Ev("b2", "p5", "sale",     Date(2025, 6, 1),  Dollars(500)),
    Ev("b1", "p5", "purchase", Date(2025, 8, 1),  Dollars(301)),
    Ev("b1", "p4", "purchase", Date(2025, 2, 1),  Dollars(100)),
    Ev("b1", "p3", "purchase", Date(2024, 10, 1), Dollars(201)),
    Ev("b1", "p1", "purchase", Date(2024, 2, 1),  Dollars(50)),
    Ev("b1", "p6", "sale",     Date(2025, 9, 1),  Dollars(999)) >>

\* The seeded events and one whose property_id names no property.
DanglingPropertyEvents == SeededEvents \o <<
    Ev("b2", "p9", "purchase", Date(2025, 6, 1), Dollars(100000)) >>

\* The seeded events and one whose buyer_id names no buyer (at p1).
DanglingBuyerEvents == SeededEvents \o <<
    Ev("b9", "p1", "purchase", Date(2025, 6, 1), Dollars(100000)) >>

\* Purchases dated on and before 1970-01-01.
OldEvents == <<
    Ev("b3", "p5", "purchase", Date(1969, 7, 20), Dollars(80000)),
    Ev("b3", "p6", "purchase", Date(1966, 3, 2),  Dollars(70000)),
    Ev("b2", "p4", "purchase", Date(1970, 1, 1),  Dollars(90000)),
    Ev("b1", "p5", "purchase", Date(1969, 12, 31), Dollars(60000)),
    Ev("b1", "p4", "purchase", Date(2025, 6, 1),  Dollars(260000)) >>

DataSets == {
    [buyers |-> SeededBuyers, events |-> SeededEvents],
    [buyers |-> VariedBuyers, events |-> VariedEvents],
    [buyers |-> SeededBuyers, events |-> DanglingPropertyEvents],
    [buyers |-> SeededBuyers, events |-> DanglingBuyerEvents],
    [buyers |-> SeededBuyers, events |-> OldEvents] }

----------------------------------------------------------------------------
(* The arguments and the clock values of the model.                         *)

\* The default center of the App (San Antonio), and a click on property p1.
DefaultCenter == [lat |-> 294241, lon |-> -984936]

Centers == {DefaultCenter, [lat |-> 294620, lon |-> -985010]}

\* 2 and 3 miles are options of the Miles select, 0.5 is a radius of the
\* tests; 0 is a number the parameter's type allows besides.
DefaultRadius == 2000

Radii == {0, 500, DefaultRadius, 3000}

\* 12 and 24 are the options of the Timeline select.
DefaultMonths == 12

MonthsOptions == {-1, 0, 1, DefaultMonths, 24, 720}

\* The BuyerType values, "all", and a string that is none of them.
BuyerTypes == {"flipper", "landlord", "cash", "unknown", "all", "other"}

At(y, m, d, h) == DaysFromCivil(y, m, d) * HoursPerDay + h

\* Clock values at the start: a midnight and an afternoon one year after the
\* eve of a seeded event (2025-03-02), and the afternoon before a 31st.
StartTimes == {At(2026, 3, 1, 0), At(2026, 3, 1, 14), At(2025, 7, 30, 14)}

MaxTicks == 1

\* The default of circlePolygon's points parameter.
DefaultPoints == 64

----------------------------------------------------------------------------
(* The state machine.                                                       *)

Call(c, r, m, t) ==
    /\ center' = c
    /\ radius' = r
    /\ months' = m
    /\ buyerType' = t
    /\ calledAt' = now
    /\ results' = computeResults(buyers, events, c, r, m, t, now)
    /\ UNCHANGED <<buyers, events, now, ticks, polygonArgs, coords>>

\* The App's first render: the state defaults of lines 157-160 and the
\* useMemo of line 164.
Init ==
    /\ \E ds \in DataSets : buyers = ds.buyers /\ events = ds.events
    /\ now \in StartTimes
    /\ ticks = 0
    /\ center = DefaultCenter
    /\ radius = DefaultRadius
    /\ months = DefaultMonths
    /\ buyerType = "all"
    /\ calledAt = now
    /\ results = computeResults(buyers, events, center, radius, months, buyerType, now)
    /\ polygonArgs = [lon |-> center.lon, lat |-> center.lat,
                      radiusMiles |-> radius, points |-> DefaultPoints]
    /\ coords = <<>>

\* setCenter({lat, lon}): a new object each time, so the query is
\* recomputed also when the coordinates are the same.
SetCenter == \E c \in Centers : Call(c, radius, months, buyerType)

\* setRadius, setMonths, setBuyerType: a changed value recomputes the query.
SetRadius == \E r \in Radii : r /= radius /\ Call(center, r, months, buyerType)

SetMonths == \E m \in MonthsOptions : m /= months /\ Call(center, radius, m, buyerType)

SetBuyerType == \E t \in BuyerTypes : t /= buyerType /\ Call(center, radius, months, t)

\* The wall clock advances by a day.
Tick ==
    /\ ticks < MaxTicks
    /\ now' = now + HoursPerDay
    /\ ticks' = ticks + 1
    /\ UNCHANGED <<buyers, events, center, radius, months, buyerType, calledAt, results>>
    /\ UNCHANGED <<polygonArgs, coords>>

Next == SetCenter \/ SetRadius \/ SetMonths \/ SetBuyerType \/ Tick

Spec == Init /\ [][Next]_vars

----------------------------------------------------------------------------
(* Properties.                                                              *)

Ok == results.status = "ok"

since == monthsAgo(months, calledAt)

BuyerIds == {buyers[i].id : i \in 1..Len(buyers)}

\* The row of buyer id in the latest result, and its deal count (0: no row).
RowsOf(rows, id) == {i \in 1..Len(rows) : rows[i].id = id}

DealsCount(rows, id) ==
    IF RowsOf(rows, id) = {} THEN 0 ELSE rows[CHOOSE i \in RowsOf(rows, id) : TRUE].deals_count

RECURSIVE SumCounts(_, _)
SumCounts(rows, i) ==
    IF i > Len(rows) THEN 0 ELSE rows[i].deals_count + SumCounts(rows, i + 1)

\* The number of events counted into the rows.
Counted(rows) == SumCounts(rows, 1)

\* The latest call repeated with another radius, lookback or category.
WithRadius(r) == computeResults(buyers, events, center, r, months, buyerType, calledAt)

WithMonths(m) == computeResults(buyers, events, center, radius, m, buyerType, calledAt)

WithType(t) == computeResults(buyers, events, center, radius, months, t, calledAt)

\* The events of buyer id that the claimed filter retains: a purchase, dated
\* on or after the calendar day of `since`, within the radius, of the
\* requested category.
ClaimedRetained(id) ==
    {i \in 1..Len(events) :
        /\ events[i].buyer_id = id
        /\ events[i].event_type = "purchase"
        /\ DaysFromCivil(events[i].event_date.y, events[i].event_date.m, events[i].event_date.d)
              >= since \div HoursPerDay
        /\ withinDist(events[i], center, radius)
        /\ (buyerType = "all" \/ buyers[Find(buyers, id)].buyer_type = buyerType)}

\* C1: the events counted into the rows are exactly the purchases dated on
\* or after sinceDate (the day itself included), within the radius
\* (inclusive) and of the requested category: every buyer's deals_count is
\* the number of its events that pass, and a buyer with none has no row.
C1_FilterExact ==
    Ok => /\ \A id \in BuyerIds : DealsCount(results.rows, id) = Cardinality(ClaimedRetained(id))
          /\ \A i \in 1..Len(results.rows) : results.rows[i].id \in BuyerIds

\* C2: with a category other than "all", every returned row has that
\* buyer_type.
C2_CategoryPartition ==
    (Ok /\ buyerType /= "all") =>
        \A i \in 1..Len(results.rows) : results.rows[i].buyer_type = buyerType

\* A category query that returns rows while the same query for "all"
\* returns more: buyers of another category passed the filter.
C2_Witness ==
    /\ Ok
    /\ buyerType = "landlord"
    /\ Len(results.rows) >= 1
    /\ WithType("all").status = "ok"
    /\ Len(WithType("all").rows) > Len(results.rows)

\* C3: with center, lookback, category and clock fixed, a larger radius
\* retains at least as many events and returns at least as many rows.
C3_RadiusMonotone ==
    Ok => \A r2 \in Radii :
            (radius < r2 /\ WithRadius(r2).status = "ok") =>
                /\ Counted(results.rows) <= Counted(WithRadius(r2).rows)
                /\ Len(results.rows) <= Len(WithRadius(r2).rows)

\* The 0.5 mile query returns rows, and the 3 mile query returns more.
C3_Witness ==
    /\ Ok
    /\ radius = 500
    /\ Len(results.rows) >= 1
    /\ WithRadius(3000).status = "ok"
    /\ Len(WithRadius(3000).rows) > Len(results.rows)

\* C4: with center, radius, category and clock fixed, a longer lookback
\* (months >= 0) retains at least as many events and returns at least as
\* many rows, on every day of the month.
C4_TimeMonotone ==
    (Ok /\ months >= 0) => \A m2 \in MonthsOptions :
            (months < m2 /\ WithMonths(m2).status = "ok") =>
                /\ Counted(results.rows) <= Counted(WithMonths(m2).rows)
                /\ Len(results.rows) <= Len(WithMonths(m2).rows)

\* A call on a 31st with a one month lookback, whose since date rolled over
\* into the following month, returning rows, and fewer than 12 months do.
C4_Witness ==
    /\ Ok
    /\ months = 1
    /\ CivilFromDays(calledAt \div HoursPerDay).d = 31
    /\ CivilFromDays(since \div HoursPerDay).d = 1
    /\ Len(results.rows) >= 1
    /\ WithMonths(12).status = "ok"
    /\ Counted(WithMonths(12).rows) > Counted(results.rows)

\* The events that the latest call counted for buyer id.
Retained(id) ==
    {i \in 1..Len(events) :
        /\ events[i].buyer_id = id
        /\ FilterKeeps(events[i], center, radius, since)
        /\ ~Skips(buyers[Find(buyers, id)], buyerType)}

\* The place in the events list of the buyer's first retained event.
FirstRetained(id) == CHOOSE i \in Retained(id) : \A j \in Retained(id) : i <= j

\* C5: the rows are in descending order of deals_count, rows of equal
\* deals_count in descending order of last_deal, and rows equal on both in
\* the order of their buyers' first retained events.
C5_Ranking ==
    Ok => \A i, j \in 1..Len(results.rows) :
            i < j =>
              LET a == results.rows[i]
                  b == results.rows[j]
              IN  \/ a.deals_count > b.deals_count
                  \/ a.deals_count = b.deals_count /\ a.last_deal > b.last_deal
                  \/ /\ a.deals_count = b.deals_count
                     /\ a.last_deal = b.last_deal
                     /\ FirstRetained(a.id) < FirstRetained(b.id)

\* The k-th smallest of a sequence of prices.
KthSmallest(ps, k) ==
    CHOOSE v \in {ps[i] : i \in 1..Len(ps)} :
        /\ Cardinality({i \in 1..Len(ps) : ps[i] < v}) < k
        /\ Cardinality({i \in 1..Len(ps) : ps[i] <= v}) >= k

\* Twice the median of the prices of a set of events.
TwiceMedianOf(S) ==
    LET idx == CHOOSE f \in [1..Cardinality(S) -> S] : \A a, b \in 1..Cardinality(S) : a < b => f[a] < f[b]
        ps  == [k \in 1..Cardinality(S) |-> events[idx[k]].price]
        n   == Len(ps)
    IN  IF n % 2 = 1 THEN 2 * KthSmallest(ps, (n + 1) \div 2)
        ELSE KthSmallest(ps, n \div 2) + KthSmallest(ps, n \div 2 + 1)

\* C6: every row's median_price is the median of the prices of the buyer's
\* retained events: the middle one of an odd number, the mean of the two
\* middle ones of an even number.
C6_Median ==
    Ok => \A i \in 1..Len(results.rows) :
            2 * results.rows[i].median_price = TwiceMedianOf(Retained(results.rows[i].id))

\* A row of four deals whose prices are listed unsorted (301, 100, 201, 50
\* dollars), with median 150.50 dollars.
C6_Witness ==
    /\ Ok
    /\ \E i \in 1..Len(results.rows) :
          /\ results.rows[i].deals_count = 4
          /\ results.rows[i].median_price = Dollars(150) + 1

\* An event of the reference data names no property, or no buyer.
Dangling ==
    \E i \in 1..Len(events) :
        Find(properties, events[i].property_id) = 0 \/ Find(buyers, events[i].buyer_id) = 0

\* C7: a query over reference data with a dangling reference fails (here:
\* with any error at all); it returns no ranked result.
C7_DanglingFails == Dangling => ~Ok

InvalidArguments ==
    radius <= 0 \/ months < 0 \/ buyerType \notin {"flipper", "landlord", "cash", "unknown", "all"}

\* C8: a call with an invalid argument fails (here: with any error at all);
\* it returns no rows, not even an empty list.
C8_InvalidRejected == InvalidArguments => ~Ok

\* C9: a call with the arguments of the call before it returns what that
\* call returned, whenever it is made.
C9_Deterministic ==
    [][(calledAt' /= calledAt /\ center' = center /\ radius' = radius
            /\ months' = months /\ buyerType' = buyerType)
        => results' = results]_vars

\* The seeded scenario at radius r: seeded data, the default center, 12
\* months, all categories, and a clock whose lookback excludes every event
\* of 2024 and includes 2025-05-10.
Scenario(r) ==
    /\ buyers = SeededBuyers
    /\ events = SeededEvents
    /\ center = DefaultCenter
    /\ radius = r
    /\ months = 12
    /\ buyerType = "all"
    /\ since > ParseDate(Date(2024, 12, 31))
    /\ since <= ParseDate(Date(2025, 5, 10))

HasRow(id) == RowsOf(results.rows, id) /= {}

B1TwoDeals ==
    \E i \in 1..Len(results.rows) :
        /\ results.rows[i].id = "b1"
        /\ results.rows[i].deals_count = 2
        /\ results.rows[i].median_price = Dollars(260000)

\* C10 as claimed: in the seeded scenario at 2 miles the result has b1 with
\* two deals and median 260000, and has no b3.
C10_Scenario == Scenario(2000) => (Ok /\ B1TwoDeals /\ ~HasRow("b3"))

\* C10 amended: in the seeded scenario at 2 miles the result has neither b1
\* nor b3; at 3 miles it has b1 with two deals and median 260000, and no b3.
C10_ScenarioAmended ==
    /\ Scenario(2000) => (Ok /\ ~HasRow("b1") /\ ~HasRow("b3"))
    /\ Scenario(3000) => (Ok /\ B1TwoDeals /\ ~HasRow("b3"))

C10_Witness == Scenario(3000) /\ Ok /\ B1TwoDeals

\* The latest event date (as a time value) among a set of events.
MaxEventDate(S) ==
    CHOOSE t \in {ParseDate(events[i].event_date) : i \in S} :
        \A i \in S : ParseDate(events[i].event_date) <= t

\* C12: every row's last_deal is the latest event_date among the buyer's
\* retained events, whatever the dates (1970-01-01 and earlier included),
\* and its deals_count is the number of those events, at least 1.
C12_LastDeal ==
    Ok => \A i \in 1..Len(results.rows) :
            LET row == results.rows[i]
            IN  /\ row.deals_count = Cardinality(Retained(row.id))
                /\ row.deals_count >= 1
                /\ row.last_deal = MaxEventDate(Retained(row.id))

----------------------------------------------------------------------------
(* circlePolygon in IEEE-754 double arithmetic.                             *)
(*                                                                          *)
(* A longitude of the ring is [deg, ulps, tiny, brng]: deg is the value in  *)
(* ten-thousandths of a degree that exact arithmetic gives; ulps is the     *)
(* number of adjacent doubles by which the computed value lies off it;      *)
(* tiny is the sign of a computed value that exact arithmetic makes 0; brng *)
(* is <<0, 1>> for a point at bearing 0 or a full turn, and <<i, points>>   *)
(* for any other point: its position on the circle is not evaluated, the   *)
(* other fields then hold the values of the circle's centre.  A latitude is *)
(* [sin, brng], sin being Math.sin(lat2) in ten-thousandths.                *)

\* Math.sin(angDist) in millionths, angDist = radiusMiles / 3958.8.
SinAngDist(radiusMiles) ==
    CASE radiusMiles = 500     -> 126
      [] radiusMiles = 2000    -> 505
      [] radiusMiles = 3000    -> 758
      [] radiusMiles = 15000   -> 3789
      [] radiusMiles = 6000000 -> 998478

\* Math.cos(angDist) in ten-thousandths.
CosAngDist(radiusMiles) ==
    CASE radiusMiles = 500     -> 10000
      [] radiusMiles = 2000    -> 10000
      [] radiusMiles = 3000    -> 10000
      [] radiusMiles = 15000   -> 10000
      [] radiusMiles = 6000000 -> 552

\* Math.sin(latR) in ten-thousandths, latR = toRad(lat).
SinLatR(lat) ==
    CASE lat = 294241 -> 4913
      [] lat = 294620 -> 4918
      [] lat = 515072 -> 7827
      [] lat = 515000 -> 7826

\* Math.cos(latR) in ten-thousandths.
CosLatR(lat) ==
    CASE lat = 294241 -> 8710
      [] lat = 294620 -> 8707
      [] lat = 515072 -> 6224
      [] lat = 515000 -> 6225

\* Math.sin(brng): the sign of the double, and whether exact arithmetic would
\* give 0.  brng = (i / points) * 2 * Math.PI is 0 for i = 0 and the double
\* nearest to 2 pi for i = points, whose sine is -2.449e-16.
SinBrng(i, points) ==
    CASE i = 0          -> [sign |-> 0, exactZero |-> TRUE]
      [] i = points     -> [sign |-> -1, exactZero |-> TRUE]
      [] 2 * i = points -> [sign |-> 1, exactZero |-> TRUE]
      [] 2 * i < points -> [sign |-> 1, exactZero |-> FALSE]
      [] OTHER          -> [sign |-> -1, exactZero |-> FALSE]

\* Whether Math.cos(brng) is 1.0: it is for the double nearest to 2 pi too.
CosBrngIsOne(i, points) == i = 0 \/ i = points

\* -Math.sin(2 * Math.PI) in thousandths of the spacing of the doubles around
\* lonR = toRad(lon); the doubles around 0 are spaced finer than any sum of
\* line 103 with lonR = 0.
SinTwoPiInUlps(lon) ==
    CASE lon = -984936 -> 1103
      [] lon = -985010 -> 1103
      [] lon = -1276   -> 564769

\* toDeg of a value that lies n doubles off lonR: the spacing of the doubles
\* around toDeg(lonR) is 64 times that around lonR, and 180 / pi is 57.296.
UlpsToDeg(n) == (n * 895 + 500) \div 1000

\* Math.sin(lat2) of lines 98-101 at a bearing whose cosine is 1.0, in
\* ten-thousandths.
SinLat2(lat, radiusMiles) ==
    (SinLatR(lat) * CosAngDist(radiusMiles)
       + CosLatR(lat) * (SinAngDist(radiusMiles) \div 100)) \div 10000

\* The second argument of Math.atan2 (line 106) at such a bearing, in
\* ten-thousandths.
AtanX(lat, radiusMiles) ==
    CosAngDist(radiusMiles) - ((SinLatR(lat) * SinLat2(lat, radiusMiles)) \div 10000)

\* Math.atan2(y, x) for a y that exact arithmetic makes 0, in ten-thousandths
\* of a degree: +0 gives 0 or pi by the sign of x, a negative y gives an angle
\* just below 0, or -pi / 2, or -pi.
Atan2(sinBrng, x) ==
    CASE sinBrng.sign = 0 /\ x >= 0  -> 0
      [] sinBrng.sign = 0 /\ x < 0   -> 1800000
      [] sinBrng.sign = -1 /\ x > 0  -> 0
      [] sinBrng.sign = -1 /\ x = 0  -> -900000
      [] sinBrng.sign = -1 /\ x < 0  -> -1800000

\* By how many doubles the sum lonR + Math.atan2(y, x) of lines 102-107 lies
\* below lonR when y = Math.sin(2 pi) * Math.sin(angDist) * Math.cos(latR) and
\* x > 0: the angle is y / x, and the sum is rounded to the nearest double.
\* (Evaluated for x > 0 only, where the radii of the model keep the products
\* within 32 bits.)
UlpsBelow(lon, lat, radiusMiles) ==
    LET y == (SinAngDist(radiusMiles) * CosLatR(lat)) \div 10000
        milli == ((SinTwoPiInUlps(lon) * y) \div AtanX(lat, radiusMiles)) \div 100
    IN  (milli + 500) \div 1000

\* toDeg(lon2) of the point pushed in iteration i.
Lon2(lon, lat, radiusMiles, i, points) ==
    LET sinBrng == SinBrng(i, points)
        x == AtanX(lat, radiusMiles)
        below == sinBrng.sign = -1 /\ x > 0
    IN  IF ~CosBrngIsOne(i, points)
        THEN [deg |-> lon, ulps |-> 0, tiny |-> 0, brng |-> <<i, points>>]
        ELSE [deg  |-> lon + Atan2(sinBrng, x),
              ulps |-> IF below /\ lon /= 0
                       THEN 0 - UlpsToDeg(UlpsBelow(lon, lat, radiusMiles))
                       ELSE 0,
              tiny |-> IF below /\ lon = 0 THEN -1 ELSE 0,
              brng |-> <<0, 1>>]

\* toDeg(lat2) of the point pushed in iteration i.
Lat2(lat, radiusMiles, i, points) ==
    IF CosBrngIsOne(i, points)
    THEN [sin |-> SinLat2(lat, radiusMiles), brng |-> <<0, 1>>]
    ELSE [sin |-> SinLatR(lat), brng |-> <<i, points>>]

\* The loop of lines 96-109: iterations i = 0 .. points push one pair each;
\* coords[k] is the pair pushed in iteration k - 1.
circlePolygon(lon, lat, radiusMiles, points) ==
    [k \in 1..(points + 1) |->
        <<Lon2(lon, lat, radiusMiles, k - 1, points),
          Lat2(lat, radiusMiles, k - 1, points)>>]

\* Centres of the circle: the two of the query, central London, and a point
\* on the prime meridian.
PolygonCenters ==
    Centers \cup {[lat |-> 515072, lon |-> -1276], [lat |-> 515000, lon |-> 0]}

\* Radii in thousandths of a mile: options of the Radius select, half a mile,
\* and a radius that reaches over the pole.
PolygonRadii == {500, 2000, 3000, 15000, 6000000}

PointsOptions == {3, 4, 5, DefaultPoints}

\* A call of circlePolygon with the arguments at hand.
CirclePolygon ==
    /\ coords = <<>>
    /\ coords' = circlePolygon(polygonArgs.lon, polygonArgs.lat,
                               polygonArgs.radiusMiles, polygonArgs.points)
    /\ UNCHANGED <<buyers, events, now, ticks, center, radius, months, buyerType,
                   calledAt, results, polygonArgs>>

InitPolygon ==
    /\ buyers = SeededBuyers
    /\ events = SeededEvents
    /\ now = At(2026, 3, 1, 0)
    /\ ticks = 0
    /\ center = DefaultCenter
    /\ radius = DefaultRadius
    /\ months = DefaultMonths
    /\ buyerType = "all"
    /\ calledAt = now
    /\ results = computeResults(buyers, events, center, radius, months, buyerType, now)
    /\ \E c \in PolygonCenters, r \in PolygonRadii, n \in PointsOptions :
          polygonArgs = [lon |-> c.lon, lat |-> c.lat, radiusMiles |-> r, points |-> n]
    /\ coords = <<>>

NextPolygon == CirclePolygon

SpecPolygon == InitPolygon /\ [][NextPolygon]_vars

\* C11: the ring circlePolygon returns has points + 1 pairs, and its first
\* pair equals its last pair, for every centre, every radius above 0 and
\* every points of at least 3.
C11_BoundaryClosure ==
    coords /= <<>> =>
        /\ Len(coords) = polygonArgs.points + 1
        /\ coords[1] = coords[Len(coords)]

====
